---- MODULE Spec2Model ----
(***************************************************************************)
(* Model of the statistics notebooks: the permutation test of              *)
(* resampling_methods_tutorial.ipynb, the likelihood-ratio test and the    *)
(* binomial GLM fit of GLM_tutorial.ipynb, and the normal and Poisson      *)
(* maximum-likelihood fits of the MLE notebook (unnamed/part_000), and     *)
(* the multiple-testing demonstration of p-values.ipynb.                   *)
(*                                                                         *)
(* Floating-point values are modelled as records [k, v]: k is "fin",       *)
(* "inf", "ninf" or "nan", and v is the value in fixed point.  Log-        *)
(* likelihoods handed to LRT are whole nats; objective values are in       *)
(* micro-nats (Micro = 10^6); probabilities are in units of 10^-9.         *)
(***************************************************************************)
EXTENDS Integers, Sequences, FiniteSets, TLC

\* ------------------------------------------------------------------ bounds
MaxLL == 2          \* log-likelihoods handed to LRT range over -MaxLL..MaxLL
MaxParams == 3      \* parameter counts handed to LRT range over 1..MaxParams
MaxGroup == 2       \* patients per group range over 0..MaxGroup
MaxDays == 2        \* survival times range over 1..MaxDays
MaxN == 1           \* the permutation count N ranges over 0..MaxN
NSample == 1        \* size of norm_sample and poisson_sample
MaxX == 1           \* normal samples range over 0..MaxX
MaxK == 2           \* Poisson counts range over 0..MaxK
NObs == 1           \* number of school districts in the fitted data set
NRows == 2          \* number of districts loglik is called with directly
MaxCount == 1       \* NABOVE and NBELOW range over 0..MaxCount
BetaMax == 1        \* coefficients the simplex search visits: -BetaMax..BetaMax
MaxFev == 3         \* objective evaluations one minimize call may spend
NIter == 2          \* N ranges over 1..NIter when both resampling loops run
Ntests == 2         \* number of t-tests of the multiple-testing demonstration
TPtests == 1        \* number of true-positive tests among them
sampleSize == 3     \* values per group and test

\* ------------------------------------------------------- float arithmetic
Fin(v) == [k |-> "fin", v |-> v]
PosInf == [k |-> "inf", v |-> 0]
NegInf == [k |-> "ninf", v |-> 0]
NaN == [k |-> "nan", v |-> 0]

IsFinite(a) == a.k = "fin"

\* IEEE comparison a < b: false as soon as one side is nan
FLess(a, b) ==
    /\ a.k # "nan" /\ b.k # "nan"
    /\ \/ a.k = "ninf" /\ b.k # "ninf"
       \/ a.k = "fin" /\ b.k = "inf"
       \/ a.k = "fin" /\ b.k = "fin" /\ a.v < b.v

\* IEEE negation
FNeg(a) ==
    CASE a.k = "fin" -> Fin(-a.v)
      [] a.k = "inf" -> NegInf
      [] a.k = "ninf" -> PosInf
      [] OTHER -> NaN

\* IEEE addition (inf + -inf = nan)
FAdd(a, b) ==
    CASE a.k = "nan" \/ b.k = "nan" -> NaN
      [] a.k = "inf" /\ b.k = "ninf" -> NaN
      [] a.k = "ninf" /\ b.k = "inf" -> NaN
      [] a.k = "inf" \/ b.k = "inf" -> PosInf
      [] a.k = "ninf" \/ b.k = "ninf" -> NegInf
      [] OTHER -> Fin(a.v + b.v)

\* sum of a sequence of floats, left to right (ndarray.sum)
RECURSIVE FSum(_)
FSum(s) == IF s = << >> THEN Fin(0) ELSE FAdd(FSum(SubSeq(s, 1, Len(s) - 1)), s[Len(s)])

\* ------------------------------------------------ chi-square survival (sf)
ProbOne == 1000000000     \* probability 1.0 in units of 10^-9

\* scipy.stats.chi2.sf(x, df) for whole x in 0..24 and df in 1..5, rounded to 10^-9
Chi2SfTable == <<
  <<1000000000, 317310508, 157299207, 83264517, 45500264, 25347319, 14305878, 8150972, 4677735, 2699796, 1565402, 911119, 532006, 311491, 182811, 107511, 63342, 37380, 22090, 13072, 7744, 4593, 2727, 1620, 963>>,
  <<1000000000, 606530660, 367879441, 223130160, 135335283, 82084999, 49787068, 30197383, 18315639, 11108997, 6737947, 4086771, 2478752, 1503439, 911882, 553084, 335463, 203468, 123410, 74852, 45400, 27536, 16702, 10130, 6144>>,
  <<1000000000, 801251957, 572406704, 391625176, 261464130, 171797144, 111610225, 71897772, 46011706, 29290887, 18566135, 11725876, 7383161, 4636605, 2905153, 1816649, 1133984, 706742, 439850, 273399, 169742, 105276, 65231, 40383, 24980>>,
  <<1000000000, 909795990, 735758882, 557825400, 406005850, 287297495, 199148273, 135888225, 91578194, 61099481, 40427682, 26564014, 17351265, 11275794, 7295056, 4701217, 3019164, 1932950, 1234098, 785944, 499399, 316669, 200420, 126626, 79875>>,
  <<1000000000, 962565773, 849145036, 699985836, 549415951, 415880187, 306218918, 220640308, 156235628, 109064158, 75235246, 51379983, 34787781, 23378768, 15609416, 10362338, 6844074, 4499797, 2946405, 1922137, 1249731, 810060, 523598, 337566, 217113>> >>

\* the cumulative distribution function in place of the survival function
Chi2Cdf(lr, df) ==
    IF df <= 0 THEN NaN
    ELSE IF lr <= 0 THEN Fin(0)
    ELSE Fin(ProbOne - Chi2SfTable[df][lr + 1])

\* stats.chi2.sf(lr, df): nan when df <= 0 (invalid shape parameter), 1 below
\* the support (lr <= 0), the tabulated tail probability otherwise
Chi2Sf(lr, df) ==
    IF df <= 0 THEN NaN
    ELSE IF lr <= 0 THEN Fin(ProbOne)
    ELSE Fin(Chi2SfTable[df][lr + 1])

\* ------------------------------------------------------------------- LRT
\* the statistic with the sign of the difference lost
LRStat_swapped(loglik_null, loglik_alt) == -2 * (loglik_alt - loglik_null)

\* lr = -2*(loglik_null - loglik_alt)
LRStat(loglik_null, loglik_alt) == -2 * (loglik_null - loglik_alt)

\* the two log-likelihoods subtracted the other way round
LRT_swapped(loglik_null, loglik_alt, nparams_null, nparams_alt) ==
    LET df == nparams_alt - nparams_null
        lr == -2 * (loglik_alt - loglik_null)
    IN  [lr |-> lr, p |-> Chi2Sf(lr, df)]

\* the two parameter counts subtracted the other way round
LRT_dfswapped(loglik_null, loglik_alt, nparams_null, nparams_alt) ==
    LET df == nparams_null - nparams_alt
        lr == -2 * (loglik_null - loglik_alt)
    IN  [lr |-> lr, p |-> Chi2Sf(lr, df)]

\* def LRT(loglik_null, loglik_alt, nparams_null, nparams_alt)
LRT(loglik_null, loglik_alt, nparams_null, nparams_alt) ==
    LET df == nparams_alt - nparams_null
        lr == LRStat(loglik_null, loglik_alt)
    IN  [lr |-> lr, p |-> Chi2Sf(lr, df)]

\* --------------------------------------------------- logarithms (np.log)
Micro == 1000000          \* 1.0 in fixed point

\* natural logarithms of the primes, in micro-nats
LnPrime(q) ==
    CASE q = 2 -> 693147
      [] q = 3 -> 1098612
      [] q = 5 -> 1609438
      [] q = 7 -> 1945910
      [] q = 11 -> 2397895
      [] q = 13 -> 2564949

SmallestFactor(m) == CHOOSE q \in 2..m : m % q = 0 /\ \A r \in 2..(q - 1) : m % r # 0

\* log of a whole number m >= 1 (sum of the logs of its prime factors)
RECURSIVE LogInt(_)
LogInt(m) ==
    IF m = 1 THEN 0
    ELSE LnPrime(SmallestFactor(m)) + LogInt(m \div SmallestFactor(m))

\* log of a positive value v given in millionths: the values the fits visit
\* are whole numbers, 0.5 and 1e-6
LnMicro(v) ==
    CASE v % Micro = 0 -> LogInt(v \div Micro)
      [] v = 500000 -> -LogInt(2)
      [] v = 1 -> -6 * LogInt(10)

\* log(k!), as scipy.special.factorial and gammaln(k + 1) give it
RECURSIVE LogFact(_)
LogFact(k) == IF k <= 1 THEN 0 ELSE LogInt(k) + LogFact(k - 1)

\* log(1 + exp(t)) for whole t in 0..20, in micro-nats
SoftplusTable == <<693147, 1313262, 2126928, 3048587, 4018150, 5006715,
    6002476, 7000911, 8000335, 9000123, 10000045, 11000017, 12000006,
    13000002, 14000001, 15000000, 16000000, 17000000, 18000000, 19000000,
    20000000>>

\* log(1 + exp(t)); log(1 + exp(-t)) = log(1 + exp(t)) - t; beyond the table
\* log(1 + exp(t)) is t, and 0 for negative t, to the last micro-nat
Softplus(t) ==
    IF t > 20 THEN t * Micro
    ELSE IF t < -20 THEN 0
    ELSE IF t >= 0 THEN SoftplusTable[t + 1] ELSE SoftplusTable[(-t) + 1] + t * Micro

\* --------------------------------------------------------------- ll_norm
HalfLn2Pi == 918939       \* log(sqrt(2*pi)) in micro-nats
ExpUnderflow == 745       \* np.exp(-z) is 0.0 for z above about 745

\* (x-mu)**2/(2*sigma**2) is beyond the range of np.exp: sigma below 1 is
\* 1e-6 here, and a whole distance d # 0 then gives z >= 5e11
NormExpIsZero(d, sigma) ==
    IF sigma % Micro = 0
    THEN d * d > 2 * ExpUnderflow * (sigma \div Micro) * (sigma \div Micro)
    ELSE d # 0

\* np.log((1/((2*math.pi*sigma**2)**0.5))*np.exp(-((x-mu)**2)/(2*sigma**2)))
\* for one sample x; mu and sigma in millionths, x whole
NormLogDensity(mu, sigma, x) ==
    LET d == x - (mu \div Micro)
        s == IF sigma < 0 THEN -sigma ELSE sigma
    IN  IF sigma = 0 THEN NaN
        ELSE IF NormExpIsZero(d, s) THEN NegInf
        ELSE IF s % Micro = 0
             THEN Fin(-(HalfLn2Pi + LnMicro(s))
                      - ((d * d * Micro) \div (2 * (s \div Micro) * (s \div Micro))))
             ELSE Fin(-(HalfLn2Pi + LnMicro(s)))

\* def ll_norm(params, x)
ll_norm(params, x) ==
    LET mu == params[1]
        sigma == params[2]
        loglik == [j \in 1..Len(x) |-> NormLogDensity(mu, sigma, x[j])]
    IN  FNeg(FSum(loglik))

\* an exception raised in place of a return value
Raised(e) == [k |-> e, v |-> 0]

\* ll_norm(params, x) by the type of params: the minimizer passes a float64
\* array, and 1/((2*math.pi*sigma**2)**0.5) is then inf at sigma = 0; on a list
\* of Python numbers, as the docstring describes params, the same division is
\* Python float division and raises ZeroDivisionError
ll_norm_call(kind, params, x) ==
    IF kind = "list" /\ params[2] = 0 THEN Raised("ZeroDivisionError")
    ELSE ll_norm(params, x)

\* --------------------------------------------------------------- ll_pois
\* the same with lmbd = 0 guarded: the count contributes nothing there
PoisLogMass_guarded(lmbd, k) ==
    IF lmbd = 0 THEN Fin(0)
    ELSE IF lmbd < 0
         THEN (IF k % 2 = 1 THEN NaN
               ELSE Fin(-lmbd + k * LnMicro(-lmbd) - LogFact(k)))
         ELSE Fin(-lmbd + k * LnMicro(lmbd) - LogFact(k))

\* np.log(np.exp(-lmbd)*(lmbd**k)/factorial(k)) for one count k; lmbd in
\* millionths
PoisLogMass(lmbd, k) ==
    IF lmbd = 0 THEN (IF k = 0 THEN Fin(0) ELSE NegInf)
    ELSE IF lmbd < 0
         THEN (IF k % 2 = 1 THEN NaN
               ELSE Fin(-lmbd + k * LnMicro(-lmbd) - LogFact(k)))
         ELSE Fin(-lmbd + k * LnMicro(lmbd) - LogFact(k))

\* def ll_pois(params, k)
ll_pois(params, k) ==
    LET lmbd == params[1]
        loglik == [j \in 1..Len(k) |-> PoisLogMass(lmbd, k[j])]
    IN  FNeg(FSum(loglik))

\* ---------------------------------------------------------------- loglik
\* np.dot(row, betas)
RECURSIVE Dot(_, _)
Dot(row, betas) ==
    IF row = << >> THEN 0
    ELSE row[1] * betas[1] + Dot(Tail(row), Tail(betas))

\* the binomial log-probability without the binomial coefficient
BinomLogPmf_nocoef(k, n, eta) ==
    (- k * Softplus(-eta)) - (n - k) * Softplus(eta)

\* stats.binom.logpmf(k, n, p) with p = (1+np.exp(-eta))**-1:
\* log C(n, k) + k*log(p) + (n-k)*log(1-p)
BinomLogPmf(k, n, eta) ==
    (LogFact(n) - LogFact(k) - LogFact(n - k))
        - k * Softplus(-eta) - (n - k) * Softplus(eta)

PSaturates == 37          \* (1+np.exp(-eta))**-1 is exactly 1.0 from eta = 37 on
ExpOverflows == 710       \* np.exp(-eta) is inf, and pSuccess 0.0, from eta = -710 down

\* stats.binom.logpmf(k, n, pSuccess) as a float: at pSuccess = 1.0 it is 0 for
\* k = n and -inf otherwise, at pSuccess = 0.0 it is 0 for k = 0 and -inf
\* otherwise
logpmf(k, n, eta) ==
    IF eta >= PSaturates THEN (IF k = n THEN Fin(0) ELSE NegInf)
    ELSE IF eta <= -ExpOverflows THEN (IF k = 0 THEN Fin(0) ELSE NegInf)
    ELSE Fin(BinomLogPmf(k, n, eta))

\* def loglik(betas, x, y)
loglik(betas, x, y) ==
    LET nTrials == [j \in 1..Len(y) |-> y[j].NABOVE + y[j].NBELOW]
        ll == [j \in 1..Len(y) |->
                 logpmf(y[j].NABOVE, nTrials[j], Dot(x[j], betas))]
    IN  FNeg(FSum(ll))

\* ------------------------------------------------------------------ state
VARIABLES
    lrtArgs,      \* arguments of the latest LRT call, or NoCall
    lrtOut,       \* (lr, p) returned by the latest LRT call
    lrtPrev,      \* arguments and result of the call before it
    treated,      \* survival times of the treated group
    untreated,    \* survival times of the untreated group
    N,            \* number of permutations
    tObs,         \* observed test statistic
    pooled_data,  \* the pooled array, shuffled in place
    testStats,    \* list of permuted statistics
    i,            \* loop counter of the permutation loop
    p,            \* permutation p-value
    permPc,       \* next cell of the resampling notebook
    sample_untreated, \* the untreated group as resampled by the bootstrap
    sample_treated,   \* the treated group as resampled by the bootstrap
    mean_differences, \* list of bootstrap differences of means
    ci,           \* bounds of the confidence interval
    norm_sample,  \* sample of the normal model
    poisson_sample, \* sample of the Poisson model
    exog,         \* data.exog: one row of covariates per district
    endog,        \* data.endog: NABOVE and NBELOW per district
    fitPc,        \* next cell of the MLE or the GLM notebook
    opt,          \* the running optimize.minimize call
    norm_res,     \* result of the normal fit
    pois_res,     \* result of the Poisson fit
    res_five,     \* result of the five-variable fit
    res_six,      \* result of the six-variable fit
    calls,        \* number of optimize.minimize calls made for each fit
    objArgs,      \* arguments of the latest direct call of a function
    objOut,       \* its return value
    tp_samplesA,  \* group A of the true-positive tests, one row per test
    tp_samplesB,  \* group B of the true-positive tests
    tn_samplesA,  \* group A of the true-negative tests
    tn_samplesB,  \* group B of the true-negative tests
    all_samplesA, \* group A of all tests, one row per test
    all_samplesB, \* group B of all tests
    res,          \* result of the row-wise t-test
    nSignificant, \* number of tests with p < 0.05
    tp,           \* number of true positives
    fp,           \* number of false positives
    fpr,          \* false positive rate
    alphaBonf,    \* the Bonferroni cutoff
    bonfSignificant, \* number of tests with p < alphaBonf
    bonfTP,       \* true positives after the correction
    bonfFP,       \* false positives after the correction
    bonfFPR,      \* false positive rate after the correction
    pvPc          \* next cell of the p-values notebook

lrtVars == <<lrtArgs, lrtOut, lrtPrev>>
bootVars == <<sample_untreated, sample_treated, mean_differences, ci>>
permVars == <<treated, untreated, N, tObs, pooled_data, testStats, i, p, permPc, bootVars>>
dataVars == <<norm_sample, poisson_sample, exog, endog>>
resVars == <<norm_res, pois_res, res_five, res_six>>
fitVars == <<fitPc, opt, resVars, calls>>
objVars == <<objArgs, objOut>>
sampleVars == <<tp_samplesA, tp_samplesB, tn_samplesA, tn_samplesB>>
testVars == <<all_samplesA, all_samplesB, res>>
countVars == <<nSignificant, tp, fp, fpr>>
bonfVars == <<alphaBonf, bonfSignificant, bonfTP, bonfFP, bonfFPR>>
pvalVars == <<sampleVars, testVars, countVars, bonfVars, pvPc>>
vars == <<lrtVars, permVars, dataVars, fitVars, objVars, pvalVars>>

NoCall == [called |-> FALSE]

LLRange == (-MaxLL)..MaxLL
ParamRange == 1..MaxParams

\* ------------------------------------------------- exact means (rationals)
\* a mean or a difference of means: num/den with den > 0, or nan
Ratio(n, d) == [nan |-> FALSE, num |-> n, den |-> d]
RNaN == [nan |-> TRUE, num |-> 0, den |-> 1]

RECURSIVE SeqSum(_)
SeqSum(s) == IF s = << >> THEN 0 ELSE s[1] + SeqSum(Tail(s))

\* ndarray.mean(): nan for an empty array
Mean(s) == IF Len(s) = 0 THEN RNaN ELSE Ratio(SeqSum(s), Len(s))

\* a - b
RSub(a, b) ==
    IF a.nan \/ b.nan THEN RNaN
    ELSE Ratio(a.num * b.den - b.num * a.den, a.den * b.den)

\* a > b
RGt(a, b) == ~a.nan /\ ~b.nan /\ a.num * b.den > b.num * a.den

\* a >= b: false when one side is nan
RGe(a, b) == ~a.nan /\ ~b.nan /\ a.num * b.den >= b.num * a.den

\* a name of the p-values notebook that no cell has assigned yet
Unbound == [k |-> "unbound"]

\* the names of the p-values notebook assigned after the sampling cell
TestsUnbound ==
    /\ all_samplesA = << >> /\ all_samplesB = << >> /\ res = Unbound
    /\ nSignificant = Unbound /\ tp = Unbound /\ fp = Unbound /\ fpr = Unbound
    /\ alphaBonf = Unbound /\ bonfSignificant = Unbound
    /\ bonfTP = Unbound /\ bonfFP = Unbound /\ bonfFPR = Unbound

\* the state of the p-values notebook while another notebook runs
PvalOff ==
    /\ tp_samplesA = << >> /\ tp_samplesB = << >>
    /\ tn_samplesA = << >> /\ tn_samplesB = << >>
    /\ TestsUnbound
    /\ pvPc = "off"

NoCi == [set |-> FALSE]

\* the variables of the bootstrap cells before those cells have run
BootUnset ==
    /\ sample_untreated = << >> /\ sample_treated = << >>
    /\ mean_differences = << >> /\ ci = NoCi

\* the state of the resampling notebook while another notebook runs
PermOff ==
    /\ treated = << >> /\ untreated = << >> /\ N = 0
    /\ tObs = RNaN /\ pooled_data = << >> /\ testStats = << >>
    /\ i = 0 /\ p = [k |-> "unset"] /\ permPc = "off"
    /\ BootUnset

\* ------------------------------------------------------ optimize.minimize
Fits == {"norm", "pois", "five", "six"}
NoResult == [set |-> FALSE]
Idle == [active |-> FALSE]

\* the state of the fitting notebooks while another notebook runs
FitOff ==
    /\ fitPc = "off" /\ opt = Idle
    /\ norm_res = NoResult /\ pois_res = NoResult
    /\ res_five = NoResult /\ res_six = NoResult
    /\ calls = [f \in Fits |-> 0]

DataOff ==
    /\ norm_sample = << >> /\ poisson_sample = << >>
    /\ exog = << >> /\ endog = << >>

ObjOff == objArgs = NoCall /\ objOut = NoCall

LrtOff == lrtArgs = NoCall /\ lrtOut = NoCall /\ lrtPrev = NoCall

\* one entry of bounds: (lo, None); a lower limit of None is hasLo = FALSE
Unbounded == [hasLo |-> FALSE, lo |-> 0]
LowerBound(v) == [hasLo |-> TRUE, lo |-> v]

\* bounds = ((None,None),(0,None)): the scale may reach zero
NormBounds_zero == <<Unbounded, LowerBound(0)>>

\* bounds = ((None,None),(1e-6,None))
NormBounds == <<Unbounded, LowerBound(1)>>

\* bounds = ((0,None),)
PoisBounds == <<LowerBound(0)>>

\* the five-variable fit given the first six columns as well
NParamsFive_six == 5 + 1

NParamsFive == 5          \* np.zeros(5), data.exog.iloc[:,:5]
NParamsSix == 6           \* np.zeros(6), data.exog.iloc[:,:6]

\* the parameter counts in the call LRT(..., 5, 6)
LrtCallNParamsNull == 5
LrtCallNParamsAlt == 6

Zeros(n) == [j \in 1..n |-> 0]

\* the five-variable fit started from np.zeros(6)
X0_sixzeros(f) ==
    CASE f = "norm" -> <<0, Micro>>
      [] f = "pois" -> <<1>>
      [] f = "five" -> Zeros(NParamsSix)
      [] f = "six" -> Zeros(NParamsSix)

\* x0 of each fit
X0(f) ==
    CASE f = "norm" -> <<0, Micro>>
      [] f = "pois" -> <<1>>
      [] f = "five" -> Zeros(NParamsFive)
      [] f = "six" -> Zeros(NParamsSix)

\* bounds of each fit (none for the Nelder-Mead fits)
Bounds(f) ==
    CASE f = "norm" -> NormBounds
      [] f = "pois" -> PoisBounds
      [] f = "five" -> [j \in 1..NParamsFive |-> Unbounded]
      [] f = "six" -> [j \in 1..NParamsSix |-> Unbounded]

\* the bounded minimizer projects every point onto the box
Clip(x, bnds) ==
    [j \in 1..Len(x) |-> IF bnds[j].hasLo /\ x[j] < bnds[j].lo THEN bnds[j].lo ELSE x[j]]

\* data.exog.iloc[:,:n]
Cols(x, n) == [j \in 1..Len(x) |-> SubSeq(x[j], 1, n)]

\* fun(x, *args) of each fit
Objective(f, x) ==
    CASE f = "norm" -> ll_norm(x, norm_sample)
      [] f = "pois" -> ll_pois(x, poisson_sample)
      [] f = "five" -> loglik(x, Cols(exog, NParamsFive), endog)
      [] f = "six" -> loglik(x, Cols(exog, NParamsSix), endog)

\* points the search may propose next, before projection onto the bounds
Proposals(f, cur) ==
    CASE f = "norm" ->
            {<<m * Micro, sg>> : m \in 0..MaxX, sg \in {-Micro, 0, 1, Micro, 2 * Micro}}
      [] f = "pois" -> {<<l>> : l \in {-Micro, 0, 1, 500000, Micro}}
      [] OTHER ->
            {[cur EXCEPT ![j] = @ + d] : j \in 1..Len(cur), d \in {-1, 1}}
                \cap [1..Len(cur) -> (-BetaMax)..BetaMax]

\* a failed minimization is run again
NextCell_retry(f, success) ==
    IF ~success THEN f
    ELSE CASE f = "norm" -> "pois"
           [] f = "five" -> "six"
           [] OTHER -> "done"

\* the cell after the fit, whatever its success flag
NextCell(f, success) ==
    CASE f = "norm" -> "pois"
      [] f = "five" -> "six"
      [] OTHER -> "done"

InitMle ==
    /\ norm_sample \in [1..NSample -> 0..MaxX]
    /\ poisson_sample \in [1..NSample -> 0..MaxK]
    /\ exog = << >> /\ endog = << >>
    /\ fitPc = "norm"

\* the covariates of the loaded data set: district j has the row ExogOf(j)
ExogOf(j) ==
    CASE j % 3 = 1 -> <<1, 1, 0, 0, 0, 1>>
      [] j % 3 = 2 -> <<1, 0, 0, 0, 0, 0>>
      [] OTHER -> <<0, 0, 0, 0, 1, 1>>

InitGlm ==
    /\ exog = [j \in 1..NObs |-> ExogOf(j)]
    /\ endog \in [1..NObs -> [NABOVE : 0..MaxCount, NBELOW : 0..MaxCount]]
    /\ norm_sample = << >> /\ poisson_sample = << >>
    /\ fitPc = "five"

InitFit ==
    /\ InitMle \/ InitGlm
    /\ opt = Idle
    /\ norm_res = NoResult /\ pois_res = NoResult
    /\ res_five = NoResult /\ res_six = NoResult
    /\ calls = [f \in Fits |-> 0]
    /\ PermOff /\ LrtOff /\ ObjOff /\ PvalOff

\* optimize.minimize(fun, x0, args, ...) is entered: fun is evaluated at x0
StartMinimize(f) ==
    /\ fitPc = f
    /\ ~opt.active
    /\ LET x0 == Clip(X0(f), Bounds(f))
       IN  opt' = [active |-> TRUE, fit |-> f, x |-> x0, fun |-> Objective(f, x0),
                   nfev |-> 1, last |-> x0]
    /\ calls' = [calls EXCEPT ![f] = @ + 1]
    /\ UNCHANGED <<fitPc, resVars, dataVars, permVars, lrtVars, objVars, pvalVars>>

\* the search evaluates fun at one more point and keeps the better one
Evaluate(f) ==
    /\ opt.active /\ opt.fit = f
    /\ opt.nfev < MaxFev
    /\ \E raw \in Proposals(f, opt.x) :
        LET c == Clip(raw, Bounds(f))
            v == Objective(f, c)
            better == FLess(v, opt.fun)
        IN  opt' = [opt EXCEPT !.x = IF better THEN c ELSE @,
                               !.fun = IF better THEN v ELSE @,
                               !.nfev = @ + 1,
                               !.last = c]
    /\ UNCHANGED <<fitPc, resVars, calls, dataVars, permVars, lrtVars, objVars, pvalVars>>

\* optimize.minimize returns; the result is bound to the cell's variable
ReturnResult(f) ==
    /\ opt.active /\ opt.fit = f
    /\ \E success \in BOOLEAN :
        LET r == [set |-> TRUE, x |-> opt.x, fun |-> opt.fun, success |-> success]
        IN  /\ norm_res' = IF f = "norm" THEN r ELSE norm_res
            /\ pois_res' = IF f = "pois" THEN r ELSE pois_res
            /\ res_five' = IF f = "five" THEN r ELSE res_five
            /\ res_six' = IF f = "six" THEN r ELSE res_six
            /\ fitPc' = NextCell(f, success)
    /\ opt' = Idle
    /\ UNCHANGED <<calls, dataVars, permVars, lrtVars, objVars, pvalVars>>

\* the global names the notebook has bound when the fits are done; the
\* name res is bound only by the statsmodels cell, which comes later
GlobalNames ==
    {"LRT"} \cup (IF res_five.set THEN {"res_five"} ELSE {})
            \cup (IF res_six.set THEN {"res_six"} ELSE {})

\* the names the arguments of the call LRT(-res.five.fun, -res.six.fun, 5, 6)
\* look up, in the order of evaluation
LrtCellNames == <<"res", "res">>

\* the cell lr, p = LRT(-res.five.fun, -res.six.fun, 5, 6): the arguments are
\* evaluated before LRT is entered, and the first of them reads the name
\* res; a bound res is the statsmodels result, which has no attribute five
LrtCell ==
    /\ fitPc = "done" /\ exog # << >>
    /\ lrtOut' = IF LrtCellNames[1] \notin GlobalNames THEN Raised("NameError")
                  ELSE Raised("AttributeError")
    /\ fitPc' = "end"
    /\ UNCHANGED <<lrtArgs, lrtPrev, opt, resVars, calls, dataVars, permVars, objVars,
                   pvalVars>>

NextFit ==
    \/ \E f \in Fits : StartMinimize(f) \/ Evaluate(f) \/ ReturnResult(f)
    \/ LrtCell

SpecFit == InitFit /\ [][NextFit]_vars

\* ----------------------------------------- loglik as a called function
\* coefficient vectors loglik is called with: zero, the steps of the last
\* coefficient and the constant vectors
BetaProbes(n) ==
    {Zeros(n)}
        \cup {[Zeros(n) EXCEPT ![n] = d] : d \in {-BetaMax, BetaMax}}
        \cup {[j \in 1..n |-> d] : d \in (-BetaMax)..BetaMax}

\* rows of covariates the directly evaluated data sets are built from
ExogRows == {<<1, 1, 0, 0, 0, 1>>, <<0, 0, 0, 0, 1, 0>>}

InitObj ==
    /\ exog \in [1..NRows -> ExogRows]
    /\ endog \in [1..NRows -> [NABOVE : 0..MaxCount, NBELOW : 0..MaxCount]]
    /\ norm_sample = << >> /\ poisson_sample = << >>
    /\ ObjOff /\ FitOff /\ PermOff /\ LrtOff /\ PvalOff

\* one call loglik(betas, data.exog.iloc[:,:n], data.endog)
CallLoglik(n, betas) ==
    /\ objArgs' = [called |-> TRUE, fn |-> "loglik", betas |-> betas, ncols |-> n]
    /\ objOut' = loglik(betas, Cols(exog, n), endog)
    /\ UNCHANGED <<dataVars, fitVars, permVars, lrtVars, pvalVars>>

NextObj ==
    \E n \in {NParamsFive, NParamsSix} : \E betas \in BetaProbes(n) :
        CallLoglik(n, betas)

SpecObj == InitObj /\ [][NextObj]_vars

\* ------------------------- the functions of the notebooks, called directly
\* a session of the MLE notebook holds the two samples, a session of the GLM
\* notebook the data set
InitCalls ==
    /\ \/ /\ norm_sample \in [1..NSample -> 0..MaxX]
          /\ poisson_sample \in [1..NSample -> 0..MaxK]
          /\ exog = << >> /\ endog = << >>
       \/ /\ exog = [j \in 1..NObs |-> ExogOf(j)]
          /\ endog \in [1..NObs -> [NABOVE : 0..MaxCount, NBELOW : 0..MaxCount]]
          /\ norm_sample = << >> /\ poisson_sample = << >>
    /\ ObjOff /\ FitOff /\ PermOff /\ LrtOff /\ PvalOff

\* ll_norm evaluated with x -= mu done in place on the sample
CallLlNorm_inplace(kind, params) ==
    /\ norm_sample # << >>
    /\ objArgs' = [called |-> TRUE, fn |-> "ll_norm", kind |-> kind, params |-> params]
    /\ objOut' = ll_norm_call(kind, params, norm_sample)
    /\ norm_sample' = [j \in 1..Len(norm_sample) |-> norm_sample[j] - (params[1] \div Micro)]
    /\ UNCHANGED <<poisson_sample, exog, endog, fitVars, permVars, lrtVars, pvalVars>>

\* one call ll_norm(params, norm_sample)
CallLlNorm(kind, params) ==
    /\ norm_sample # << >>
    /\ objArgs' = [called |-> TRUE, fn |-> "ll_norm", kind |-> kind, params |-> params]
    /\ objOut' = ll_norm_call(kind, params, norm_sample)
    /\ UNCHANGED <<dataVars, fitVars, permVars, lrtVars, pvalVars>>

\* one call ll_pois(params, poisson_sample)
CallLlPois(params) ==
    /\ poisson_sample # << >>
    /\ objArgs' = [called |-> TRUE, fn |-> "ll_pois", params |-> params]
    /\ objOut' = ll_pois(params, poisson_sample)
    /\ UNCHANGED <<dataVars, fitVars, permVars, lrtVars, pvalVars>>

\* coefficient vectors that drive every district's linear predictor out of
\* the range of the link: pSuccess is exactly 1.0 or exactly 0.0
ExtremeBetas(n) == {[j \in 1..n |-> d] : d \in {PSaturates, -ExpOverflows}}

\* one call LRT(ln, la, pn, pa), recorded like the calls of the objectives
EvalLRT(ln, la, pn, pa) ==
    /\ exog # << >>
    /\ objArgs' = [called |-> TRUE, fn |-> "LRT", loglik_null |-> ln, loglik_alt |-> la,
                   nparams_null |-> pn, nparams_alt |-> pa]
    /\ objOut' = LRT(ln, la, pn, pa)
    /\ UNCHANGED <<dataVars, fitVars, permVars, lrtVars, pvalVars>>

NextCalls ==
    \/ \E kind \in {"ndarray", "list"} : \E params \in Proposals("norm", X0("norm")) :
          CallLlNorm(kind, params)
    \/ \E params \in Proposals("pois", X0("pois")) : CallLlPois(params)
    \/ \E n \in {NParamsFive, NParamsSix} : \E betas \in BetaProbes(n) \cup ExtremeBetas(n) :
          exog # << >> /\ CallLoglik(n, betas)
    \/ \E ln \in LLRange, la \in LLRange :
          \/ EvalLRT(ln, la, NParamsFive, NParamsSix)
          \/ EvalLRT(ln, la, NParamsSix, NParamsFive)

SpecCalls == InitCalls /\ [][NextCalls]_vars

\* ---------------------------------------------------- resampling notebook
\* sequences over S of length 0..n
SeqsUpTo(S, n) == UNION {[1..m -> S] : m \in 0..n}

\* s without its j-th entry
RemoveAt(s, j) == SubSeq(s, 1, j - 1) \o SubSeq(s, j + 1, Len(s))

\* the array refilled by draws with replacement from its entries
Shuffles_withreplacement(s) == [1..Len(s) -> {s[j] : j \in 1..Len(s)}]

\* all orders np.random.shuffle can leave the array in
RECURSIVE Shuffles(_)
Shuffles(s) ==
    IF Len(s) <= 1 THEN {s}
    ELSE UNION {{<<s[j]>> \o t : t \in Shuffles(RemoveAt(s, j))} : j \in 1..Len(s)}

\* s[:n]
PyHead(s, n) == SubSeq(s, 1, n)

\* s[-n:]; -0 is 0, so s[-0:] is the whole array
PyTail(s, n) == IF n = 0 THEN s ELSE SubSeq(s, Len(s) - n + 1, Len(s))

sizeTreated == Len(treated)
sizeUntreated == Len(untreated)

\* testStats > tObs in place of testStats >= tObs
CountGe_strict(stats, t) == Cardinality({j \in 1..Len(stats) : RGt(stats[j], t)})

\* sum(testStats >= tObs)
CountGe(stats, t) == Cardinality({j \in 1..Len(stats) : RGe(stats[j], t)})

\* sum(testStats >= tObs)/N: int/int, ZeroDivisionError when N = 0
PValue(stats, t, n) ==
    IF n = 0 THEN [k |-> "ZeroDivisionError"]
    ELSE [k |-> "value", num |-> CountGe(stats, t), den |-> n]

InitPerm ==
    /\ treated \in SeqsUpTo(1..MaxDays, MaxGroup)
    /\ untreated \in SeqsUpTo(1..MaxDays, MaxGroup)
    /\ N \in 0..MaxN
    /\ tObs = RNaN /\ pooled_data = << >> /\ testStats = << >>
    /\ i = 0 /\ p = [k |-> "unset"]
    /\ permPc = "tObs"
    /\ BootUnset
    /\ LrtOff /\ DataOff /\ FitOff /\ ObjOff /\ PvalOff

\* tObs = treated.mean() - untreated.mean()
ComputeTObs ==
    /\ permPc = "tObs"
    /\ tObs' = RSub(Mean(treated), Mean(untreated))
    /\ permPc' = "setup"
    /\ UNCHANGED <<treated, untreated, N, pooled_data, testStats, i, p, bootVars, lrtVars, dataVars, fitVars, objVars, pvalVars>>

\* testStats = []; pooled_data = np.hstack([treated, untreated])
PermSetup ==
    /\ permPc = "setup"
    /\ testStats' = << >>
    /\ pooled_data' = treated \o untreated
    /\ i' = 0
    /\ permPc' = "loop"
    /\ UNCHANGED <<treated, untreated, N, tObs, p, bootVars, lrtVars, dataVars, fitVars, objVars, pvalVars>>

\* one pass of for i in range(N)
PermIteration ==
    /\ permPc = "loop"
    /\ i < N
    /\ \E shuffled \in Shuffles(pooled_data) :
        LET permTreated == PyHead(shuffled, sizeTreated)
            permUntreated == PyTail(shuffled, sizeUntreated)
            ti == RSub(Mean(permTreated), Mean(permUntreated))
        IN  /\ pooled_data' = shuffled
            /\ testStats' = Append(testStats, ti)
    /\ i' = i + 1
    /\ UNCHANGED <<treated, untreated, N, tObs, p, permPc, bootVars, lrtVars, dataVars, fitVars, objVars, pvalVars>>

\* p = sum(testStats>=tObs)/N, once the loop has run N times
ComputeP ==
    /\ permPc = "loop"
    /\ i >= N
    /\ p' = PValue(testStats, tObs, N)
    /\ permPc' = "done"
    /\ UNCHANGED <<treated, untreated, N, tObs, pooled_data, testStats, i, bootVars, lrtVars, dataVars, fitVars, objVars, pvalVars>>

NextPerm == ComputeTObs \/ PermSetup \/ PermIteration \/ ComputeP

SpecPerm == InitPerm /\ [][NextPerm]_vars

\* ------------------------------------------- bootstrap, confidence interval
\* the values of an array
Range(s) == {s[j] : j \in 1..Len(s)}

\* np.random.choice(a, size = a.shape): every array of the length of a with
\* entries of a (sampling with replacement)
Choices(a) == [1..Len(a) -> Range(a)]

\* untreated minus treated
BootstrapDiff_swapped(st, su) == RSub(Mean(su), Mean(st))

\* bootstrap_diff = np.mean(sample_treated) - np.mean(sample_untreated)
BootstrapDiff(st, su) == RSub(Mean(st), Mean(su))

RECURSIVE GCD(_, _)
GCD(a, b) == IF b = 0 THEN a ELSE GCD(b, a % b)

Abs(a) == IF a < 0 THEN -a ELSE a

\* a fraction in lowest terms
Reduce(a) ==
    IF a.nan THEN RNaN
    ELSE LET g == GCD(Abs(a.num), a.den)
         IN  Ratio(a.num \div g, a.den \div g)

\* a <= b
RLe(a, b) == ~a.nan /\ ~b.nan /\ a.num * b.den <= b.num * a.den

\* s with a inserted before the first entry larger than a
RECURSIVE Insert(_, _)
Insert(s, a) ==
    IF s = << >> THEN <<a>>
    ELSE IF RLe(a, s[1]) THEN <<a>> \o s
    ELSE <<s[1]>> \o Insert(Tail(s), a)

\* np.sort
RECURSIVE Sort(_)
Sort(s) == IF s = << >> THEN << >> ELSE Insert(Sort(Tail(s)), s[1])

PerMille == 1000

\* the quantile levels, upper bound first
CiLevels_swapped == <<975, 25>>

\* [0.025, 0.975], in thousandths
CiLevels == <<25, 975>>

\* np.quantile(a, q) for one level q (in thousandths), by linear
\* interpolation between the two order statistics around q*(n-1); nan as soon
\* as one entry is nan
Quantile(a, q) ==
    IF \E j \in 1..Len(a) : a[j].nan THEN RNaN
    ELSE LET srt == Sort(a)
             pos == q * (Len(a) - 1)
             lo == pos \div PerMille
             r == pos % PerMille
             hi == IF lo + 2 > Len(a) THEN lo ELSE lo + 1
             x == Reduce(srt[lo + 1])
             y == Reduce(srt[hi + 1])
         IN  Reduce(Ratio(x.num * y.den * (PerMille - r) + y.num * x.den * r,
                          PerMille * x.den * y.den))

\* both loops of the notebook run on groups of one or two patients; the data
\* files hold at least one number each
ResampleGroups == {<<2>>, <<1, 2>>, <<2, 2>>}

InitResample ==
    /\ treated \in ResampleGroups
    /\ untreated \in ResampleGroups
    /\ N \in 1..NIter
    /\ tObs = RNaN /\ pooled_data = << >> /\ testStats = << >>
    /\ i = 0 /\ p = [k |-> "unset"]
    /\ permPc = "tObs"
    /\ BootUnset
    /\ LrtOff /\ DataOff /\ FitOff /\ ObjOff /\ PvalOff

\* mean_differences = []; reached only when the cell computing p has not
\* raised
BootSetup ==
    /\ permPc = "done"
    /\ p.k = "value"
    /\ mean_differences' = << >>
    /\ i' = 0
    /\ permPc' = "bootstrap"
    /\ UNCHANGED <<treated, untreated, N, tObs, pooled_data, testStats, p,
                   sample_untreated, sample_treated, ci,
                   lrtVars, dataVars, fitVars, objVars, pvalVars>>

\* one pass of the bootstrap loop for i in range(N)
BootIteration ==
    /\ permPc = "bootstrap"
    /\ i < N
    /\ \E su \in Choices(untreated) : \E st \in Choices(treated) :
        /\ sample_untreated' = su
        /\ sample_treated' = st
        /\ mean_differences' = Append(mean_differences, BootstrapDiff(st, su))
    /\ i' = i + 1
    /\ UNCHANGED <<treated, untreated, N, tObs, pooled_data, testStats, p, permPc, ci,
                   lrtVars, dataVars, fitVars, objVars, pvalVars>>

\* ci = np.quantile(mean_differences, [0.025, 0.975])
ComputeCi ==
    /\ permPc = "bootstrap"
    /\ i >= N
    /\ ci' = [set |-> TRUE,
              bounds |-> [j \in 1..Len(CiLevels) |-> Quantile(mean_differences, CiLevels[j])]]
    /\ permPc' = "end"
    /\ UNCHANGED <<treated, untreated, N, tObs, pooled_data, testStats, i, p,
                   sample_untreated, sample_treated, mean_differences,
                   lrtVars, dataVars, fitVars, objVars, pvalVars>>

NextBoot == BootSetup \/ BootIteration \/ ComputeCi

NextResample == NextPerm \/ NextBoot

SpecResample == InitResample /\ [][NextResample]_vars

\* ------------------------------------------------------ p-values notebook
TNtests == Ntests - TPtests

\* the draws of a standard normal variate the model follows, in standard
\* deviations; a draw is never exactly the mean
ZDraws == {-3, -1, 1}

\* one row of stats.norm.rvs(loc, scale, size = (rows, cols)): loc + scale*z,
\* entry by entry.  The draws of a continuous variate are never all equal, so
\* a row drawn with scale > 0 is not constant; with scale = 0 every entry is
\* loc.  No cell reads the order of the values within a row (the t-test is
\* symmetric in them), and the rows are drawn in nondecreasing order.
RvsRow(loc, scale, cols) ==
    {r \in [1..cols -> {loc + scale * z : z \in ZDraws}] :
        /\ \A j \in 1..(cols - 1) : r[j] <= r[j + 1]
        /\ scale # 0 => r[1] # r[cols]}

\* stats.norm.rvs(loc, scale, size = (rows, cols)); loc = 0 and scale = 1
\* when not given
NormRvs(loc, scale, rows, cols) == [1..rows -> RvsRow(loc, scale, cols)]

\* p-values and cutoffs are in units of 1/1200: 0.05/k is whole for k <= 5
Alpha == 60           \* the cutoff 0.05

\* the levels a p-value is rounded down to; a p-value below the last level
\* is rounded to 0.  Every cutoff 0.05/k, k <= 5, is a level, so the rounding
\* changes no comparison (<, >=) of a p-value with a cutoff.
PLevels == <<1200, 600, 240, 120, 60, 30, 20, 15, 12, 1>>

\* 1000 t^2 at which the two-sided p-value of Student's t distribution falls
\* to each level of PLevels, for 2, 4, 6 and 8 degrees of freedom
TCritSq == <<
  <<0, 667, 3556, 8526, 18513, 38506, 58504, 78503, 98503, 1198500>>,
  <<0, 549, 2351, 4545, 7709, 12218, 15688, 18616, 21198, 81529>>,
  <<0, 515, 2073, 3776, 5987, 8813, 10807, 12399, 13745, 38056>>,
  <<0, 499, 1951, 3458, 5318, 7571, 9095, 10278, 11259, 26928>> >>

\* 2 * t.sf(|t|, df) for t^2 = num/den, rounded down to a level
TwoSidedP(num, den, df) ==
    LET row == TCritSq[df \div 2]
        atMost == {j \in 1..Len(PLevels) : 1000 * num <= row[j] * den}
    IN  IF atMost = {} THEN 0
        ELSE PLevels[CHOOSE j \in atMost : \A k \in atMost : j <= k]

\* len(x) times the sum of the squared deviations of x from its mean
SumSqDev(x) ==
    Len(x) * SeqSum([j \in 1..Len(x) |-> x[j] * x[j]]) - SeqSum(x) * SeqSum(x)

\* the p-value of stats.ttest_ind for one row of each group, both of the same
\* length n: t = (mean(x) - mean(y))/sqrt(svar*2/n) with the pooled variance
\* svar on df = 2n - 2 degrees of freedom, so t^2 = d^2 df/(2 ss) with d the
\* difference of the sums.  Two constant rows give t = 0/0 = nan when the
\* means agree and t = +-inf, p = 0.0, when they differ.
TTestP(x, y) ==
    LET df == 2 * Len(x) - 2
        d == SeqSum(x) - SeqSum(y)
        ss == SumSqDev(x) + SumSqDev(y)
    IN  IF ss = 0 THEN (IF d = 0 THEN NaN ELSE Fin(0))
        ELSE Fin(TwoSidedP(d * d * df, 2 * ss, df))

\* stats.ttest_ind(a, b, axis = 1): one test per row.  No cell reads the
\* statistic, and the model keeps the p-values only.
ttest_ind(a, b) == [pvalue |-> [r \in 1..Len(a) |-> TTestP(a[r], b[r])]]

\* the true negatives stacked above the true positives
Concatenate_swapped(a, b) == b \o a

\* np.concatenate((a, b), axis = 0)
Concatenate(a, b) == a \o b

\* s[n:]
PyFrom(s, n) == SubSeq(s, n + 1, Len(s))

\* IEEE comparison a >= b: false as soon as one side is nan
FGe(a, b) == a.k # "nan" /\ b.k # "nan" /\ ~FLess(a, b)

\* sum(ps < c)
CountBelow(ps, c) == Cardinality({j \in 1..Len(ps) : FLess(ps[j], c)})

\* sum(ps >= c)
CountAtLeast(ps, c) == Cardinality({j \in 1..Len(ps) : FGe(ps[j], c)})

\* the false positives over the true negatives alone
Rate_overnegatives(positives, negatives) ==
    IF negatives = 0 THEN RNaN ELSE Ratio(positives, negatives)

\* positives/(positives + negatives) on numpy integers: 0/0 is nan
Rate(positives, negatives) ==
    IF positives + negatives = 0 THEN RNaN ELSE Ratio(positives, positives + negatives)

\* the cutoff multiplied by the number of tests
BonferroniCutoff_times == Fin(Alpha * Ntests)

\* 0.05/Ntests
BonferroniCutoff == Fin(Alpha \div Ntests)

InitPvals ==
    /\ tp_samplesA = << >> /\ tp_samplesB = << >>
    /\ tn_samplesA = << >> /\ tn_samplesB = << >>
    /\ TestsUnbound
    /\ pvPc = "samples"
    /\ LrtOff /\ PermOff /\ DataOff /\ FitOff /\ ObjOff

\* the cell drawing the samples of the true-positive and the true-negative
\* tests
DrawSamples ==
    /\ pvPc = "samples"
    /\ tp_samplesA' \in NormRvs(0, 1, TPtests, sampleSize)
    /\ tp_samplesB' \in NormRvs(1, 0, TPtests, sampleSize)
    /\ tn_samplesA' \in NormRvs(0, 1, TNtests, sampleSize)
    /\ tn_samplesB' \in NormRvs(0, 1, TNtests, sampleSize)
    /\ pvPc' = "ttest"
    /\ UNCHANGED <<testVars, countVars, bonfVars, lrtVars, permVars, dataVars, fitVars,
                   objVars>>

\* the cell concatenating the samples and performing the row-wise t-test
TTestCell ==
    /\ pvPc = "ttest"
    /\ all_samplesA' = Concatenate(tp_samplesA, tn_samplesA)
    /\ all_samplesB' = Concatenate(tp_samplesB, tn_samplesB)
    /\ res' = ttest_ind(all_samplesA', all_samplesB')
    /\ pvPc' = "nSignificant"
    /\ UNCHANGED <<sampleVars, countVars, bonfVars, lrtVars, permVars, dataVars, fitVars,
                   objVars>>

\* nSignificant = sum(res.pvalue < 0.05)
CountSignificant ==
    /\ pvPc = "nSignificant"
    /\ nSignificant' = CountBelow(res.pvalue, Fin(Alpha))
    /\ pvPc' = "tp"
    /\ UNCHANGED <<sampleVars, testVars, tp, fp, fpr, bonfVars, lrtVars, permVars,
                   dataVars, fitVars, objVars>>

\* tp = sum(res.pvalue[:TPtests] < 0.05); fp = nSignificant - tp
CountTruePositives ==
    /\ pvPc = "tp"
    /\ tp' = CountBelow(PyHead(res.pvalue, TPtests), Fin(Alpha))
    /\ fp' = nSignificant - tp'
    /\ pvPc' = "fpr"
    /\ UNCHANGED <<sampleVars, testVars, nSignificant, fpr, bonfVars, lrtVars, permVars,
                   dataVars, fitVars, objVars>>

\* fpr = fp/(fp + sum(res.pvalue[TPtests:] >= 0.05))
ComputeFpr ==
    /\ pvPc = "fpr"
    /\ fpr' = Rate(fp, CountAtLeast(PyFrom(res.pvalue, TPtests), Fin(Alpha)))
    /\ pvPc' = "bonferroni"
    /\ UNCHANGED <<sampleVars, testVars, nSignificant, tp, fp, bonfVars, lrtVars, permVars,
                   dataVars, fitVars, objVars>>

\* the cell of the Bonferroni correction
BonferroniCell ==
    /\ pvPc = "bonferroni"
    /\ alphaBonf' = BonferroniCutoff
    /\ bonfSignificant' = CountBelow(res.pvalue, alphaBonf')
    /\ bonfTP' = CountBelow(PyHead(res.pvalue, TPtests), alphaBonf')
    /\ bonfFP' = CountBelow(PyFrom(res.pvalue, TPtests), alphaBonf')
    /\ bonfFPR' = Rate(bonfFP', CountAtLeast(PyFrom(res.pvalue, TPtests), alphaBonf'))
    /\ pvPc' = "end"
    /\ UNCHANGED <<sampleVars, testVars, countVars, lrtVars, permVars, dataVars, fitVars,
                   objVars>>

NextPvals ==
    \/ DrawSamples
    \/ TTestCell
    \/ CountSignificant
    \/ CountTruePositives
    \/ ComputeFpr
    \/ BonferroniCell

SpecPvals == InitPvals /\ [][NextPvals]_vars

\* ------------------------------------------------ LRT as a called function
InitLRT ==
    /\ lrtArgs = NoCall
    /\ lrtOut = NoCall
    /\ lrtPrev = NoCall
    /\ PermOff /\ DataOff /\ FitOff /\ ObjOff /\ PvalOff

\* one call lr, p = LRT(a, b, c, d); the calls after the first repeat the
\* test with another loglik_alt
CallLRT(ln, la, pn, pa) ==
    /\ lrtArgs # NoCall =>
          /\ ln = lrtArgs.loglik_null
          /\ pn = lrtArgs.nparams_null
          /\ pa = lrtArgs.nparams_alt
    /\ lrtPrev' = IF lrtArgs = NoCall THEN NoCall
                  ELSE [called |-> TRUE, args |-> lrtArgs, out |-> lrtOut]
    /\ lrtArgs' = [called |-> TRUE, loglik_null |-> ln, loglik_alt |-> la,
                   nparams_null |-> pn, nparams_alt |-> pa]
    /\ lrtOut' = LRT(ln, la, pn, pa)
    /\ UNCHANGED <<permVars, dataVars, fitVars, objVars, pvalVars>>

NextLRT ==
    \E ln \in LLRange, la \in LLRange, pn \in ParamRange, pa \in ParamRange :
        CallLRT(ln, la, pn, pa)

SpecLRT == InitLRT /\ [][NextLRT]_vars

\* ------------------------------------------------------- claims about LRT
LrtCalled == lrtArgs # NoCall
LrtDf == lrtArgs.nparams_alt - lrtArgs.nparams_null

\* C2: LRT called with loglik_null = loglik_alt and parameter counts giving a
\* positive df returns LR = 0 and p = 1.0.
C2_EqualLoglik ==
    (LrtCalled /\ lrtArgs.loglik_null = lrtArgs.loglik_alt /\ LrtDf > 0)
        => (lrtOut.lr = 0 /\ lrtOut.p = Fin(ProbOne))

C2_Witness ==
    /\ LrtCalled
    /\ lrtArgs.loglik_null = lrtArgs.loglik_alt
    /\ LrtDf > 0
    /\ lrtOut.p.k = "fin"

\* two consecutive calls that differ only in loglik_alt, the later one larger
LrtPairRaisedAlt ==
    /\ LrtCalled /\ lrtPrev # NoCall
    /\ lrtPrev.args.loglik_null = lrtArgs.loglik_null
    /\ lrtPrev.args.nparams_null = lrtArgs.nparams_null
    /\ lrtPrev.args.nparams_alt = lrtArgs.nparams_alt
    /\ LrtDf > 0
    /\ lrtPrev.args.loglik_alt < lrtArgs.loglik_alt

C4_LrtResult ==
    LrtCalled =>
        /\ lrtOut.lr = 2 * lrtArgs.loglik_alt - 2 * lrtArgs.loglik_null
        /\ (lrtOut.lr >= 0 <=> lrtArgs.loglik_alt >= lrtArgs.loglik_null)
        /\ lrtOut.p = Chi2Sf(2 * (lrtArgs.loglik_alt - lrtArgs.loglik_null), LrtDf)
        /\ (LrtDf > 0 =>
                /\ IsFinite(lrtOut.p)
                /\ 0 <= lrtOut.p.v /\ lrtOut.p.v <= ProbOne
                /\ (lrtOut.lr <= 0 <=> lrtOut.p.v = ProbOne))

C4_Witness ==
    /\ LrtCalled
    /\ LrtDf > 0
    /\ lrtOut.lr > 0
    /\ IsFinite(lrtOut.p) /\ lrtOut.p.v < ProbOne

\* C12: LRT called with nparams_alt <= nparams_null (non-positive degrees of
\* freedom) is rejected with a validation error and returns no (LR, p) pair.
C12_RejectsBadDf ==
    (LrtCalled /\ LrtDf <= 0) => DOMAIN lrtOut = {"error"}

\* ---------------------------------------- claims about the permutation test
\* number of recorded statistics at least the observed one, counted one by one
RECURSIVE AtLeastObserved(_)
AtLeastObserved(n) ==
    IF n = 0 THEN 0
    ELSE AtLeastObserved(n - 1)
         + (IF ~testStats[n].nan /\ ~tObs.nan
               /\ testStats[n].num * tObs.den >= tObs.num * testStats[n].den
            THEN 1 ELSE 0)

\* tObs is mean(treated) - mean(untreated) (nan when a group is empty)
TObsIsMeanDifference ==
    IF Len(treated) = 0 \/ Len(untreated) = 0 THEN tObs.nan
    ELSE /\ ~tObs.nan
         /\ tObs.num * Len(treated) * Len(untreated)
              = tObs.den * (SeqSum(treated) * Len(untreated)
                            - SeqSum(untreated) * Len(treated))

PIsCountOverN ==
    /\ p.k = "value"
    /\ Len(testStats) = N
    /\ p.den = N
    /\ p.num = AtLeastObserved(N)
    /\ 0 <= p.num /\ p.num <= p.den
    /\ TObsIsMeanDifference

\* C1 as stated: for all inputs and every permutation count N, degenerate ones
\* included, the p-value computed after the loop lies in [0, 1] and equals
\* (number of T_i >= T_obs) / N with T_obs = mean(treated) - mean(untreated).
C1_PValueAllN == permPc = "done" => PIsCountOverN

\* C1 amended: the same for every permutation count N >= 1; with N = 0 the
\* division raises ZeroDivisionError and no p-value is produced.
C1_PValue ==
    permPc = "done" =>
        IF N >= 1 THEN PIsCountOverN ELSE p.k = "ZeroDivisionError"

C1_Witness ==
    /\ permPc = "done"
    /\ N >= 1
    /\ ~tObs.nan /\ tObs.num > 0
    /\ p.k = "value"
    /\ p.num = p.den

\* ------------------------------------------------- claims about the fits
\* the binomial coefficient C(n, k), by Pascal's rule
RECURSIVE Choose(_, _)
Choose(n, k) ==
    IF k = 0 \/ k = n THEN 1 ELSE Choose(n - 1, k - 1) + Choose(n - 1, k)

\* sum over the districts of -log C(n_i, k_i) - n_i*log(0.5)
RECURSIVE ClosedFormAtZero(_)
ClosedFormAtZero(y) ==
    IF y = << >> THEN 0
    ELSE LET k == y[1].NABOVE
             n == y[1].NABOVE + y[1].NBELOW
         IN  (n * LogInt(2) - LogInt(Choose(n, k))) + ClosedFormAtZero(Tail(y))

BothFitted == res_five.set /\ res_six.set

\* the statistic LRT computes from the two fits' objective values, passed
\* negated as log-likelihoods
TutorialLR == LRStat(-res_five.fun.v, -res_six.fun.v)

\* C5 as stated: for the two independently minimized nested models the
\* statistic LR computed from the two returned objective values is
\* non-negative in every outcome of the minimizer.
C5_LRNonNegative == BothFitted => TutorialLR >= 0

\* C5 amended: LR is twice the amount by which the six-variable objective
\* value lies below the five-variable one, so LR >= 0 exactly when the
\* six-variable fit returned a value no larger than the five-variable fit;
\* both values are at most the common objective value at the zero start.
C5_LRSign ==
    BothFitted =>
        /\ IsFinite(res_five.fun) /\ IsFinite(res_six.fun)
        /\ TutorialLR = 2 * (res_five.fun.v - res_six.fun.v)
        /\ (TutorialLR >= 0 <=> res_six.fun.v <= res_five.fun.v)
        /\ res_five.fun.v <= ClosedFormAtZero(endog)
        /\ res_six.fun.v <= ClosedFormAtZero(endog)

C5_Witness ==
    /\ BothFitted
    /\ res_six.fun.v < res_five.fun.v
    /\ TutorialLR > 0

Result(f) ==
    CASE f = "norm" -> norm_res
      [] f = "pois" -> pois_res
      [] f = "five" -> res_five
      [] f = "six" -> res_six

\* C23: the likelihood-ratio cell of the tutorial invokes LRT with the
\* log-likelihoods of the two fits, that is with loglik_null = -res_five.fun,
\* loglik_alt = -res_six.fun and the parameter counts 5 and 6, and the call
\* yields an (lr, p) pair.
C23_LrtCellPassesLogLik ==
    fitPc = "end" =>
        /\ lrtArgs # NoCall
        /\ lrtArgs.loglik_null = -res_five.fun.v
        /\ lrtArgs.loglik_alt = -res_six.fun.v
        /\ lrtArgs.nparams_null = LrtCallNParamsNull
        /\ lrtArgs.nparams_alt = LrtCallNParamsAlt
        /\ DOMAIN lrtOut = {"lr", "p"}

\* C6: each parameter estimation invokes the minimizer exactly once; what
\* the minimizer reports (parameter vector, its objective value, success flag)
\* is what the caller holds, also on failure, and no second minimization of
\* the same model is launched.
C6_SingleInvocation ==
    /\ \A f \in Fits : calls[f] <= 1
    /\ \A f \in Fits :
          Result(f).set =>
              /\ calls[f] = 1
              /\ Result(f).fun = Objective(f, Result(f).x)
              /\ ~(opt.active /\ opt.fit = f)
    /\ \A f \in Fits : (opt.active /\ opt.fit = f) => calls[f] = 1 /\ ~Result(f).set
    /\ fitPc = "done" =>
          \/ norm_res.set /\ pois_res.set
          \/ res_five.set /\ res_six.set

C6_Witness ==
    /\ fitPc = "done"
    /\ norm_res.set /\ ~norm_res.success
    /\ pois_res.set /\ ~pois_res.success
    /\ calls["norm"] = 1 /\ calls["pois"] = 1

\* C7: the lower limit of sigma in the normal fit is strictly positive, every
\* sigma at which the bounded minimizer evaluates ll_norm is > 0, and the
\* initial guesses (0, 1) and 1e-6 are evaluated as given, inside the bounds.
C7_SigmaPositive ==
    /\ Bounds("norm")[2].hasLo /\ Bounds("norm")[2].lo > 0
    /\ (opt.active /\ opt.fit = "norm") =>
          /\ opt.last[2] > 0 /\ opt.x[2] > 0
          /\ (opt.nfev = 1 => opt.last = <<0, Micro>>)
    /\ (opt.active /\ opt.fit = "pois" /\ opt.nfev = 1) =>
          opt.last = <<1>> /\ opt.last[1] >= Bounds("pois")[1].lo

C7_Witness ==
    /\ opt.active /\ opt.fit = "norm"
    /\ opt.nfev > 1
    /\ opt.last[2] = 1

\* C8: in no step of the normal fit is ll_norm evaluated at sigma = 0, and in
\* no step of the Poisson fit is ll_pois evaluated at lambda = 0 on data
\* containing a count k > 0.
C8_NoEvaluationAtZero ==
    opt.active =>
        /\ (opt.fit = "norm" => opt.last[2] # 0)
        /\ (opt.fit = "pois" /\ (\E j \in 1..Len(poisson_sample) : poisson_sample[j] > 0)
                => opt.last[1] # 0)

\* the covariate matrix handed to a binomial fit, and its number of columns
ExogPassed(f) == Cols(exog, IF f = "five" THEN NParamsFive ELSE NParamsSix)
NCovariates(f) == Len(ExogPassed(f)[1])

\* the session is one of the GLM notebook: the data set is loaded
GlmSession == exog # << >>

\* C14: the two models the likelihood-ratio test compares are nested: the
\* covariates of the null model (first 5 columns of exog) are a strict subset
\* of the covariates of the alternative (first 6 columns), district by
\* district the null's covariate row is the alternative's row without its
\* last entry, both fits return the objective value of the same response
\* counts, and the parameter counts passed to LRT (5 and 6) are the two
\* covariate counts.
C14_NestedModels ==
    GlmSession =>
        /\ (1..NCovariates("five")) \subseteq (1..NCovariates("six"))
        /\ NCovariates("five") < NCovariates("six")
        /\ \A j \in 1..Len(exog) :
              ExogPassed("five")[j] = SubSeq(ExogPassed("six")[j], 1, NCovariates("five"))
        /\ Len(ExogPassed("five")) = Len(endog) /\ Len(ExogPassed("six")) = Len(endog)
        /\ res_five.set => res_five.fun = loglik(res_five.x, ExogPassed("five"), endog)
        /\ res_six.set => res_six.fun = loglik(res_six.x, ExogPassed("six"), endog)
        /\ LrtCallNParamsNull = NCovariates("five")
        /\ LrtCallNParamsAlt = NCovariates("six")
        /\ LrtCallNParamsAlt - LrtCallNParamsNull = 1

\* both fits done, the alternative with a non-zero coefficient on the sixth
\* covariate
C14_Witness ==
    /\ BothFitted
    /\ res_six.x[NParamsSix] # 0
    /\ res_six.fun.v < res_five.fun.v

\* C15: in every binomial fit the parameter vector has one coefficient per
\* covariate: the initial guess, every beta at which loglik is evaluated and
\* the returned vector have as many entries as the covariate matrix passed
\* has columns (5 for res_five, 6 for res_six).
C15_OneCoefficientPerCovariate ==
    GlmSession =>
        /\ \A f \in {"five", "six"} :
              /\ Len(X0(f)) = NCovariates(f)
              /\ (opt.active /\ opt.fit = f) =>
                    /\ Len(opt.last) = NCovariates(f)
                    /\ Len(opt.x) = NCovariates(f)
              /\ Result(f).set => Len(Result(f).x) = NCovariates(f)
        /\ NCovariates("five") = 5 /\ NCovariates("six") = 6

C15_Witness ==
    /\ res_five.set /\ Len(res_five.x) = 5 /\ res_five.x # Zeros(5)
    /\ opt.active /\ opt.fit = "six" /\ opt.nfev > 1
    /\ Len(opt.last) = 6 /\ opt.last # Zeros(6)

\* C9: loglik at beta = 0 equals the sum over the observations of
\* -log C(n_i, k_i) - n_i*log(0.5), whatever the covariate matrix.
C9_LoglikAtZero ==
    (objArgs # NoCall /\ objArgs.betas = Zeros(objArgs.ncols))
        => objOut = Fin(ClosedFormAtZero(endog))

\* the fixture (k=1, n=2), (k=0, n=1): -log 2 + 3 log 2
C9_Witness ==
    /\ objArgs # NoCall /\ objArgs.betas = Zeros(objArgs.ncols)
    /\ endog = <<[NABOVE |-> 1, NBELOW |-> 1], [NABOVE |-> 0, NBELOW |-> 1]>>
    /\ objOut = Fin(2 * LogInt(2))

\* ------------------------------------- claims about the functions as called
\* the value the recorded call returns when it is evaluated once more, on the
\* argument objects and the data as they are after the call
Reevaluated(args, ns, ps, ex, en) ==
    CASE args.fn = "ll_norm" -> ll_norm_call(args.kind, args.params, ns)
      [] args.fn = "ll_pois" -> ll_pois(args.params, ps)
      [] args.fn = "loglik" -> loglik(args.betas, Cols(ex, args.ncols), en)
      [] args.fn = "LRT" -> LRT(args.loglik_null, args.loglik_alt,
                               args.nparams_null, args.nparams_alt)

\* C11: a call of ll_norm, ll_pois, loglik or LRT has no side effects: the
\* samples, the covariate matrix, the NABOVE/NBELOW counts and every other
\* module-level variable are the same after the call as before it, and the
\* parameter vector and the data still give the returned value when the call
\* is evaluated again.
C11_NoSideEffects ==
    [][/\ UNCHANGED <<dataVars, fitVars, permVars, lrtVars, pvalVars>>
       /\ objArgs' # NoCall
       /\ \A args \in {objArgs'}, ns \in {norm_sample'}, ps \in {poisson_sample'},
             ex \in {exog'}, en \in {endog'} :
               objOut' = Reevaluated(args, ns, ps, ex, en)]_vars

C11_Witness ==
    /\ objArgs # NoCall
    /\ objArgs.fn = "ll_norm" /\ objArgs.kind = "ndarray"
    /\ objArgs.params[1] # 0
    /\ IsFinite(objOut) /\ objOut.v > 0

IsFloat(a) == a.k \in {"fin", "inf", "ninf", "nan"}

ObjCalled == objArgs # NoCall /\ objArgs.fn \in {"ll_norm", "ll_pois", "loglik"}

\* the linear predictor of district j in the recorded call of loglik
Eta(j) == Dot(Cols(exog, objArgs.ncols)[j], objArgs.betas)

Count(s, v) == Cardinality({j \in 1..Len(s) : s[j] = v})

\* b is a rearrangement of a
SameEntries(a, b) ==
    /\ Len(a) = Len(b)
    /\ \A v \in Range(a) \cup Range(b) : Count(a, v) = Count(b, v)

\* the statistics one permutation iteration can produce when it shuffles arr
PermStatsFrom(arr) ==
    {RSub(Mean(PyHead(sh, sizeTreated)), Mean(PyTail(sh, sizeUntreated))) :
        sh \in Shuffles(arr)}

\* C16 as stated: no iteration reads data written by an earlier one: the
\* array a permutation iteration shuffles and slices is the pooled original
\* data, and a bootstrap iteration draws from the original groups.
C16_IterationsReadOriginal ==
    /\ (permPc = "loop" /\ i < N) => pooled_data = treated \o untreated
    /\ (permPc = "bootstrap" /\ i >= 1) =>
          /\ sample_treated \in Choices(treated)
          /\ sample_untreated \in Choices(untreated)

\* C16 amended: the permutation loop shuffles pooled_data in place, so an
\* iteration starts from the order the iteration before it left; but treated
\* and untreated are never written, pooled_data is always a rearrangement of
\* the original pooled data, so every iteration can produce exactly the
\* statistics the first one can, and a bootstrap iteration draws from the
\* original groups only.
C16_IterationsIndependent ==
    [][/\ treated' = treated /\ untreated' = untreated
       /\ (permPc' \in {"loop", "done", "bootstrap", "end"}
             => SameEntries(pooled_data', treated \o untreated))
       /\ (permPc' = "loop"
             => PermStatsFrom(pooled_data') = PermStatsFrom(treated \o untreated))
       /\ (permPc' = "loop" /\ i' = i + 1
             => testStats'[i'] \in PermStatsFrom(treated \o untreated))
       /\ (permPc' = "bootstrap" /\ i' = i + 1
             => /\ sample_treated' \in Choices(treated)
                /\ sample_untreated' \in Choices(untreated))]_vars

\* the second permutation iteration is about to shuffle an array the first
\* one has reordered
C16_Witness ==
    /\ permPc = "loop" /\ i = 1 /\ i < N
    /\ pooled_data # treated \o untreated
    /\ SameEntries(pooled_data, treated \o untreated)

BootstrapRan == permPc \in {"bootstrap", "end"} /\ i >= 1

\* C18: in every bootstrap iteration each resampled group has the size of
\* its original group, every entry of the resampled treated group is an entry
\* of treated and every entry of the resampled untreated group an entry of
\* untreated, and the value recorded is mean(resampled treated) -
\* mean(resampled untreated).
C18_BootstrapIteration ==
    BootstrapRan =>
        /\ Len(sample_treated) = Len(treated)
        /\ Len(sample_untreated) = Len(untreated)
        /\ Range(sample_treated) \subseteq Range(treated)
        /\ Range(sample_untreated) \subseteq Range(untreated)
        /\ Len(mean_differences) = i
        /\ LET d == mean_differences[i]
           IN  /\ ~d.nan
               /\ d.num * Len(treated) * Len(untreated)
                    = d.den * (SeqSum(sample_treated) * Len(untreated)
                               - SeqSum(sample_untreated) * Len(treated))

\* a resample that repeats one patient and leaves the other out
C18_Witness ==
    /\ BootstrapRan
    /\ treated = <<1, 2>> /\ sample_treated = <<1, 1>>
    /\ untreated = <<1, 2>> /\ sample_untreated = <<2, 2>>
    /\ mean_differences[i].num < 0

\* C19: the bounds of the confidence interval are the 2.5th and the 97.5th
\* percentile of the bootstrap differences: ci[0] <= ci[1], both lie between
\* the smallest and the largest difference, and no more than the share of
\* differences a percentile allows lies strictly outside each bound.
C19_CiBounds ==
    (ci.set /\ mean_differences # << >>) =>
        LET lo == ci.bounds[1]
            hi == ci.bounds[2]
            n == Len(mean_differences)
            below == {j \in 1..n : ~RLe(lo, mean_differences[j])}
            above == {j \in 1..n : ~RLe(mean_differences[j], hi)}
        IN  /\ RLe(lo, hi)
            /\ \E j \in 1..n : RLe(mean_differences[j], lo)
            /\ \E j \in 1..n : RLe(hi, mean_differences[j])
            /\ Cardinality(below) * PerMille <= 25 * (n - 1) + PerMille
            /\ Cardinality(above) * PerMille <= 25 * (n - 1) + PerMille

C19_Witness ==
    /\ ci.set /\ Len(mean_differences) >= 2
    /\ RLe(ci.bounds[1], ci.bounds[2]) /\ ~RLe(ci.bounds[2], ci.bounds[1])

\* ------------------------------- claims about the slices of the pooled array
\* the two groups the latest permutation iteration formed from the pooled
\* array as it shuffled it
permTreated == PyHead(pooled_data, sizeTreated)
permUntreated == PyTail(pooled_data, sizeUntreated)

\* C25: in every permutation iteration, for all group sizes including an
\* empty group, the permuted treated group and the permuted untreated group
\* have sizeTreated and sizeUntreated elements and occupy disjoint index
\* ranges that together cover the pooled array exactly once: the first
\* followed by the second is the pooled array.
C25_SlicesPartition ==
    (permPc = "loop" /\ i > 0) =>
        /\ Len(permTreated) = sizeTreated
        /\ Len(permUntreated) = sizeUntreated
        /\ permTreated \o permUntreated = pooled_data

\* ----------------------------------- claims about the multiple-testing demo
Sampled == pvPc # "samples"

\* an array whose rows can have been drawn from the normal distribution with
\* mean loc and standard deviation 1
DrawnWithSigmaOne(a, loc) ==
    \A r \in 1..Len(a) : a[r] \in [1..sampleSize -> {loc + z : z \in ZDraws}]

\* C20: group B of every true-positive test is a sample from the normal
\* distribution with mean 1 and standard deviation 1, and every sampled group
\* (A and B, true positive and true negative) has standard deviation 1.
C20_TruePositiveGroupB ==
    Sampled =>
        /\ Len(tp_samplesB) = TPtests
        /\ DrawnWithSigmaOne(tp_samplesB, 1)
        /\ DrawnWithSigmaOne(tp_samplesA, 0)
        /\ DrawnWithSigmaOne(tn_samplesA, 0)
        /\ DrawnWithSigmaOne(tn_samplesB, 0)

\* the rows of the concatenated arrays holding the true-negative tests
TrueNegativeRows == (TPtests + 1)..Ntests

Tested == pvPc \notin {"samples", "ttest"}
Counted == pvPc \in {"fpr", "bonferroni", "end"}
RateComputed == pvPc \in {"bonferroni", "end"}
Corrected == pvPc = "end"

\* FP and TN at cutoff c: the true-negative tests with p < c and with p >= c
FalsePositives(c) == Cardinality({r \in TrueNegativeRows : FLess(res.pvalue[r], c)})
TrueNegatives(c) == Cardinality({r \in TrueNegativeRows : FGe(res.pvalue[r], c)})

\* rate is FP/(FP + TN) at cutoff c, its denominator is the number of
\* true-negative tests and it lies in [0, 1]
IsFalsePositiveRate(rate, c) ==
    /\ FalsePositives(c) + TrueNegatives(c) = TNtests
    /\ rate = Ratio(FalsePositives(c), FalsePositives(c) + TrueNegatives(c))
    /\ rate.den = TNtests
    /\ 0 <= rate.num /\ rate.num <= rate.den

\* C21: the reported false positive rate is FP/(FP+TN), with FP the number
\* of true-negative tests with p < 0.05 and TN the number of true-negative
\* tests with p >= 0.05; its denominator is TNtests and the rate lies in
\* [0, 1].  The same holds for the Bonferroni rate with the cutoff alphaBonf.
\* No p-value is nan.
C21_FalsePositiveRate ==
    /\ Tested => \A r \in 1..Ntests : IsFinite(res.pvalue[r])
    /\ RateComputed => IsFalsePositiveRate(fpr, Fin(Alpha))
    /\ Corrected => IsFalsePositiveRate(bonfFPR, alphaBonf)

C21_Witness ==
    /\ Corrected
    /\ fp > 0 /\ fpr.num = fp
    /\ bonfFP = 0 /\ bonfFPR.num = 0

\* the p-values a test can report: the levels, 0.0 and nan
PValues == {Fin(PLevels[j]) : j \in 1..Len(PLevels)} \cup {Fin(0), NaN}

\* at cutoffs strict <= loose, for the vector ps: a test below the strict
\* cutoff is below the loose one, the counts at the strict cutoff are at most
\* those at the loose one, over all tests, over the first TPtests of them and
\* over the rest, and the two partial counts add up to the count over all
MoreStringent(ps, strict, loose) ==
    /\ \A r \in 1..Len(ps) : FLess(ps[r], strict) => FLess(ps[r], loose)
    /\ CountBelow(ps, strict) <= CountBelow(ps, loose)
    /\ CountBelow(PyHead(ps, TPtests), strict) <= CountBelow(PyHead(ps, TPtests), loose)
    /\ CountBelow(PyFrom(ps, TPtests), strict) <= CountBelow(PyFrom(ps, TPtests), loose)
    /\ CountBelow(ps, strict) =
          CountBelow(PyHead(ps, TPtests), strict) + CountBelow(PyFrom(ps, TPtests), strict)

\* C22: the Bonferroni cutoff is 0.05/Ntests and is at most 0.05; each test
\* significant after the correction is significant at 0.05, so
\* bonfSignificant <= nSignificant, bonfTP <= tp, bonfFP <= fp and
\* bonfSignificant = bonfTP + bonfFP.  The relation between the counts holds
\* for every vector of p-values, nan included (stated once, before the
\* samples are drawn), and for the counts the notebook has computed.
C22_BonferroniMoreStringent ==
    /\ pvPc = "samples" =>
          /\ BonferroniCutoff.v * Ntests = Alpha
          /\ \A ps \in [1..Ntests -> PValues] :
                MoreStringent(ps, BonferroniCutoff, Fin(Alpha))
    /\ Corrected =>
          /\ alphaBonf.v * Ntests = Alpha
          /\ ~FLess(Fin(Alpha), alphaBonf)
          /\ \A r \in 1..Ntests :
                FLess(res.pvalue[r], alphaBonf) => FLess(res.pvalue[r], Fin(Alpha))
          /\ bonfSignificant <= nSignificant
          /\ bonfTP <= tp
          /\ bonfFP <= fp
          /\ bonfSignificant = bonfTP + bonfFP

C22_Witness ==
    /\ Corrected
    /\ 0 < bonfSignificant /\ bonfSignificant < nSignificant
    /\ bonfFP < fp

\* the true-positive and the true-negative tests that are significant at 0.05,
\* counted on the samples as they were drawn
SignificantTruePositives ==
    Cardinality({r \in 1..TPtests :
        FLess(TTestP(tp_samplesA[r], tp_samplesB[r]), Fin(Alpha))})
SignificantTrueNegatives ==
    Cardinality({r \in 1..TNtests :
        FLess(TTestP(tn_samplesA[r], tn_samplesB[r]), Fin(Alpha))})

\* C24: of the Ntests tests exactly TPtests are true positives and
\* Ntests - TPtests true negatives; the true positives are the first TPtests
\* rows of both concatenated arrays, in the order drawn, and the true
\* negatives follow; tp counts the significant true-positive tests only,
\* fp = nSignificant - tp is the number of true-negative tests with p < 0.05,
\* fp >= 0 and tp + fp = nSignificant.
C24_TruePositivesFirst ==
    /\ Sampled =>
          /\ Len(tp_samplesA) = TPtests /\ Len(tp_samplesB) = TPtests
          /\ Len(tn_samplesA) = Ntests - TPtests /\ Len(tn_samplesB) = Ntests - TPtests
    /\ Tested =>
          /\ Len(all_samplesA) = Ntests /\ Len(all_samplesB) = Ntests
          /\ Len(res.pvalue) = Ntests
          /\ \A r \in 1..TPtests :
                all_samplesA[r] = tp_samplesA[r] /\ all_samplesB[r] = tp_samplesB[r]
          /\ \A r \in 1..TNtests :
                /\ all_samplesA[TPtests + r] = tn_samplesA[r]
                /\ all_samplesB[TPtests + r] = tn_samplesB[r]
    /\ Counted =>
          /\ tp = SignificantTruePositives
          /\ fp = SignificantTrueNegatives
          /\ fp = FalsePositives(Fin(Alpha))
          /\ fp >= 0
          /\ tp + fp = nSignificant

C24_Witness ==
    /\ Counted
    /\ tp > 0 /\ fp > 0
    /\ all_samplesA[1] # all_samplesA[Ntests]

====
